---- MODULE Spec2Model ----
(***************************************************************************)
(* Model of train.py (unsupervised SimCSE training script): main() as a    *)
(* sequential state machine over its program points, with the DataLoader   *)
(* batch sampler, the linear warmup/decay schedule, the STS-B scorer as a  *)
(* nondeterministic oracle, and the best-checkpoint bookkeeping.           *)
(*                                                                         *)
(* Abstractions:                                                           *)
(*  - model parameters (state_dict) are the number of optimizer updates    *)
(*    applied so far; two snapshots are equal iff taken after the same     *)
(*    update;                                                              *)
(*  - a loss value is identified by the (global, 1-based) index of the     *)
(*    training step that computed it;                                      *)
(*  - an STS-B score is one of the ordered levels 1..MaxScore;             *)
(*  - the learning rate is the fraction <<num, den>> of the base rate      *)
(*    args.lr (LambdaLR sets lr = base_lr * lr_lambda(last_epoch));        *)
(*  - an optional value (Python None, an absent file) is the empty         *)
(*    sequence, a present value v is <<v>>.                                *)
(***************************************************************************)
EXTENDS Integers, Sequences, FiniteSets

\* ---------------------------------------------------------------- bounds
MaxN == 3          \* number of non-empty lines of train.txt: 1..MaxN
MaxBatch == 2      \* args.batch_size: 0..MaxBatch
MaxEpochs == 2     \* args.epochs: 0..MaxEpochs
MaxWarmup == 2     \* args.num_warmup_steps: 0..MaxWarmup
MaxInterval == 2   \* args.eval_logging_interval: 1..MaxInterval
MaxScore == 2      \* score levels returned by sts.dev: 1..MaxScore
MaxSteps == 4      \* scheduled training steps of a run: epochs * floor(N/B) <= MaxSteps

VARIABLES
    args,           \* the parsed Args (batch_size, epochs, num_warmup_steps, eval_logging_interval)
    train_dataset,  \* len(train_dataset): the samples are 1..train_dataset
    pc,             \* program point of main()
    exc,            \* the exception propagating out of main(), "none" if none
    training,       \* model.training (nn.Module mode flag)
    state_dict,     \* model parameters: number of optimizer.step() applied
    emb1, emb2,     \* how the two training forward passes of the last step ran
    enc,            \* how the last encode() forward pass ran
    it,             \* the DataLoader iterator: shuffled indices not yet batched
    batch,          \* the current batch (sequence of sample indices)
    yielded,        \* history: batches yielded by the iterator of the current epoch
    last_epoch,     \* lr_scheduler.last_epoch (number of lr_scheduler.step() calls)
    lr,             \* optimizer learning rate as <<num, den>> of the base rate
    lr0,            \* history: learning rate right after the scheduler was built
    epoch, step,    \* loop variables of main()
    loss,           \* loss of the current training step
    stsb_score,     \* score of the current in-loop evaluation
    best_stsb, best_step,
    logs,           \* list of log rows
    evals,          \* history: state_dict at each completed sts.dev call
    model_pt,       \* output_dir/model.pt
    logs_csv,       \* output_dir/logs.csv
    best_metrics,   \* output_dir/best-metrics.json
    config_json     \* output_dir/config.json

vars == <<args, train_dataset, pc, exc, training, state_dict, emb1, emb2, enc,
          it, batch, yielded, last_epoch, lr, lr0, epoch, step, loss, stsb_score,
          best_stsb, best_step, logs, evals, model_pt, logs_csv, best_metrics,
          config_json>>

None == <<>>
Some(v) == <<v>>

Max(a, b) == IF a >= b THEN a ELSE b

\* ------------------------------------------------------------ pure parts

\* variant: the trailing partial batch is kept
drop_last_False == FALSE

\* DataLoader(..., drop_last=True)
drop_last == TRUE

\* len(train_dataloader): number of batches per epoch
DataLoaderLen(n, b) ==
    IF drop_last THEN n \div b ELSE (n + b - 1) \div b

\* RandomSampler: a fresh permutation of the sample indices per iterator
randperm(n) ==
    {p \in [1..n -> 1..n] : \A i, j \in 1..n : p[i] = p[j] => i = j}

\* BatchSampler.__iter__: does the iterator still yield a batch?
HasNextBatch(rest, b) ==
    \/ Len(rest) >= b
    \/ Len(rest) > 0 /\ ~drop_last

\* BatchSampler.__iter__: the next batch, built index by index
RECURSIVE TakeBatch(_, _)
TakeBatch(rest, b) ==
    IF b = 0 \/ rest = <<>> THEN <<>>
    ELSE <<Head(rest)>> \o TakeBatch(Tail(rest), b - 1)

RECURSIVE DropBatch(_, _)
DropBatch(rest, b) ==
    IF b = 0 \/ rest = <<>> THEN rest
    ELSE DropBatch(Tail(rest), b - 1)

\* variant: the warmup branch also taken at current_step = num_warmup_steps
lr_lambda_WarmupInclusive(current_step, num_warmup_steps, num_training_steps) ==
    IF current_step <= num_warmup_steps
    THEN <<current_step, Max(1, num_warmup_steps)>>
    ELSE <<Max(0, num_training_steps - current_step),
           Max(1, num_training_steps - num_warmup_steps)>>

\* get_linear_schedule_with_warmup's lr_lambda, as the fraction <<num, den>>
lr_lambda(current_step, num_warmup_steps, num_training_steps) ==
    IF current_step < num_warmup_steps
    THEN <<current_step, Max(1, num_warmup_steps)>>
    ELSE <<Max(0, num_training_steps - current_step),
           Max(1, num_training_steps - num_warmup_steps)>>

\* SimCSEModel.forward: dropout is active iff the module is in training mode,
\* the MLP head is applied iff use_mlp
forward(mode, use_mlp) == [dropout |-> mode, mlp |-> use_mlp]

\* encode(): model(**batch, use_mlp=False)
encode(mode) == forward(mode, FALSE)

\* variant: model.eval() leaves the module in training mode
eval_NoOp == TRUE

\* model.train() / model.eval(): the value given to model.training
train == TRUE
eval == FALSE

\* variant: one epoch too many
HasNextEpoch_Inclusive(e, epochs) == e + 1 <= epochs

\* range(args.epochs): is there an epoch after `e`?
HasNextEpoch(e, epochs) == e + 1 < epochs

\* variant: the interval tested on the 0-based step
EvalDue_ZeroBased(s, interval, len) ==
    \/ s % interval = 0
    \/ (s + 1) = len

\* the condition of the in-loop evaluation
EvalDue(s, interval, len) ==
    \/ (s + 1) % interval = 0
    \/ (s + 1) = len

\* variant: a tie also replaces the best
Better_OrEqual(best, score) == best <= score

\* `if best_stsb < stsb_score`
Better(best, score) == best < score

\* variant: the 0-based step recorded as best step
BestStep_ZeroBased(s) == s

\* the step recorded as best_step / logged as "step"
BestStep(s) == s + 1
LogStep(s) == s + 1

\* variant: a handler around the training step skips the failed batch
Propagate_SkipBatch(point) == IF point = "forward" THEN "for_step" ELSE "aborted"

\* an exception raised inside main() has no handler: it propagates out of main()
Propagate(point) == "aborted"

\* score of a log row (the first row uses the key "STSB", the others "stsb")
ScoreOf(row) == IF "STSB" \in DOMAIN row THEN row.STSB ELSE row.stsb

\* ------------------------------------------------------------------ Init

Init ==
    /\ args \in [batch_size: 0..MaxBatch, epochs: 0..MaxEpochs,
                 num_warmup_steps: 0..MaxWarmup,
                 eval_logging_interval: 1..MaxInterval]
    /\ train_dataset \in 1..MaxN
    /\ args.batch_size > 0 =>
        args.epochs * (train_dataset \div args.batch_size) <= MaxSteps
    /\ pc = "main"
    /\ exc = "none"
    /\ training = TRUE
    /\ state_dict = 0
    /\ emb1 = None /\ emb2 = None /\ enc = None
    /\ it = <<>> /\ batch = <<>> /\ yielded = <<>>
    /\ last_epoch = 0 /\ lr = None /\ lr0 = None
    /\ epoch = -1 /\ step = -1
    /\ loss = 0 /\ stsb_score = 0 /\ best_stsb = 0 /\ best_step = 0
    /\ logs = <<>> /\ evals = <<>>
    /\ model_pt = None /\ logs_csv = None /\ best_metrics = None
    /\ config_json = None

\* --------------------------------------------------------------- actions

\* an exception leaves main(): nothing else changes
Raise(kind) ==
    /\ exc' = kind
    /\ pc' = Propagate(pc)
    /\ UNCHANGED <<args, train_dataset, training, state_dict, emb1, emb2, enc,
                   it, batch, yielded, last_epoch, lr, lr0, epoch, step, loss,
                   stsb_score, best_stsb, best_step, logs, evals, model_pt,
                   logs_csv, best_metrics, config_json>>

\* lines 141-192: model, dataset, DataLoader, optimizer, scheduler, scorer.
\* BatchSampler raises ValueError for a batch size that is not positive.
Setup ==
    /\ pc = "main"
    /\ IF args.batch_size <= 0
       THEN Raise("DataLoader")
       ELSE /\ last_epoch' = 0
            /\ lr' = lr_lambda(0, args.num_warmup_steps,
                     DataLoaderLen(train_dataset, args.batch_size) * args.epochs)
            /\ lr0' = lr'
            /\ pc' = "model_eval"
            /\ UNCHANGED <<args, train_dataset, exc, training, state_dict, emb1,
                           emb2, enc, it, batch, yielded, epoch, step, loss,
                           stsb_score, best_stsb, best_step, logs, evals,
                           model_pt, logs_csv, best_metrics, config_json>>

\* line 209
InitialEvalMode ==
    /\ pc = "model_eval"
    /\ training' = eval
    /\ pc' = "sts_dev_0"
    /\ UNCHANGED <<args, train_dataset, exc, state_dict, emb1, emb2, enc, it,
                   batch, yielded, last_epoch, lr, lr0, epoch, step, loss,
                   stsb_score, best_stsb, best_step, logs, evals, model_pt,
                   logs_csv, best_metrics, config_json>>

\* lines 210-220: the step-0 evaluation and the first log row
InitialEval ==
    /\ pc = "sts_dev_0"
    /\ \E s \in 1..MaxScore :
        /\ enc' = Some(encode(training))
        /\ evals' = Append(evals, state_dict)
        /\ best_stsb' = s
        /\ best_step' = 0
        /\ logs' = <<[epoch |-> 0, step |-> 0, loss |-> None, STSB |-> s]>>
    /\ pc' = "for_epoch"
    /\ UNCHANGED <<args, train_dataset, exc, training, state_dict, emb1, emb2,
                   it, batch, yielded, last_epoch, lr, lr0, epoch, step, loss,
                   stsb_score, model_pt, logs_csv, best_metrics, config_json>>

InitialEvalFails ==
    /\ pc = "sts_dev_0"
    /\ Raise("scorer")

\* lines 222-229: next epoch: model.train() and a fresh shuffled iterator
NextEpoch ==
    /\ pc = "for_epoch"
    /\ HasNextEpoch(epoch, args.epochs)
    /\ epoch' = epoch + 1
    /\ training' = train
    /\ \E p \in randperm(train_dataset) : it' = p
    /\ yielded' = <<>>
    /\ step' = -1
    /\ pc' = "for_step"
    /\ UNCHANGED <<args, train_dataset, exc, state_dict, emb1, emb2, enc, batch,
                   last_epoch, lr, lr0, loss, stsb_score, best_stsb, best_step,
                   logs, evals, model_pt, logs_csv, best_metrics, config_json>>

\* line 222: the epoch loop is over
EpochsDone ==
    /\ pc = "for_epoch"
    /\ ~HasNextEpoch(epoch, args.epochs)
    /\ pc' = "save_logs"
    /\ UNCHANGED <<args, train_dataset, exc, training, state_dict, emb1, emb2,
                   enc, it, batch, yielded, last_epoch, lr, lr0, epoch, step,
                   loss, stsb_score, best_stsb, best_step, logs, evals,
                   model_pt, logs_csv, best_metrics, config_json>>

\* lines 225-231: enumerate(train_dataloader) yields the next batch
FetchBatch ==
    /\ pc = "for_step"
    /\ HasNextBatch(it, args.batch_size)
    /\ batch' = TakeBatch(it, args.batch_size)
    /\ it' = DropBatch(it, args.batch_size)
    /\ yielded' = Append(yielded, batch')
    /\ step' = step + 1
    /\ pc' = "forward"
    /\ UNCHANGED <<args, train_dataset, exc, training, state_dict, emb1, emb2,
                   enc, last_epoch, lr, lr0, epoch, loss, stsb_score, best_stsb,
                   best_step, logs, evals, model_pt, logs_csv, best_metrics,
                   config_json>>

\* line 225: the iterator is exhausted, the epoch ends
EpochEnd ==
    /\ pc = "for_step"
    /\ ~HasNextBatch(it, args.batch_size)
    /\ pc' = "for_epoch"
    /\ UNCHANGED <<args, train_dataset, exc, training, state_dict, emb1, emb2,
                   enc, it, batch, yielded, last_epoch, lr, lr0, epoch, step,
                   loss, stsb_score, best_stsb, best_step, logs, evals,
                   model_pt, logs_csv, best_metrics, config_json>>

\* lines 239-251: two forward passes and the loss.  cross_entropy raises when
\* the similarity matrix does not have args.batch_size rows.
Forward ==
    /\ pc = "forward"
    /\ IF Len(batch) # args.batch_size
       THEN Raise("forward")
       ELSE /\ emb1' = Some(forward(training, TRUE))
            /\ emb2' = Some(forward(training, TRUE))
            /\ loss' = state_dict + 1
            /\ pc' = "backward"
            /\ UNCHANGED <<args, train_dataset, exc, training, state_dict, enc,
                           it, batch, yielded, last_epoch, lr, lr0, epoch, step,
                           stsb_score, best_stsb, best_step, logs, evals,
                           model_pt, logs_csv, best_metrics, config_json>>

\* lines 239-254: a forward or backward pass raises (OOM, device error, ...)
ForwardFails ==
    /\ pc = "forward"
    /\ Raise("forward")

\* lines 253-257: gradient update and schedule advance
OptimizerStep ==
    /\ pc = "backward"
    /\ state_dict' = state_dict + 1
    /\ last_epoch' = last_epoch + 1
    /\ lr' = lr_lambda(last_epoch', args.num_warmup_steps,
                       DataLoaderLen(train_dataset, args.batch_size) * args.epochs)
    /\ pc' = "interval"
    /\ UNCHANGED <<args, train_dataset, exc, training, emb1, emb2, enc, it,
                   batch, yielded, lr0, epoch, step, loss, stsb_score,
                   best_stsb, best_step, logs, evals, model_pt, logs_csv,
                   best_metrics, config_json>>

\* lines 260-261: evaluation is due: model.eval()
EvalMode ==
    /\ pc = "interval"
    /\ EvalDue(step, args.eval_logging_interval,
               DataLoaderLen(train_dataset, args.batch_size))
    /\ training' = eval
    /\ pc' = "sts_dev"
    /\ UNCHANGED <<args, train_dataset, exc, state_dict, emb1, emb2, enc, it,
                   batch, yielded, last_epoch, lr, lr0, epoch, step, loss,
                   stsb_score, best_stsb, best_step, logs, evals, model_pt,
                   logs_csv, best_metrics, config_json>>

\* line 260: no evaluation at this step
NoEval ==
    /\ pc = "interval"
    /\ ~EvalDue(step, args.eval_logging_interval,
                DataLoaderLen(train_dataset, args.batch_size))
    /\ pc' = "for_step"
    /\ UNCHANGED <<args, train_dataset, exc, training, state_dict, emb1, emb2,
                   enc, it, batch, yielded, last_epoch, lr, lr0, epoch, step,
                   loss, stsb_score, best_stsb, best_step, logs, evals,
                   model_pt, logs_csv, best_metrics, config_json>>

\* line 263: the scorer returns a score
Evaluate ==
    /\ pc = "sts_dev"
    /\ \E s \in 1..MaxScore : stsb_score' = s
    /\ enc' = Some(encode(training))
    /\ evals' = Append(evals, state_dict)
    /\ pc' = "compare"
    /\ UNCHANGED <<args, train_dataset, exc, training, state_dict, emb1, emb2,
                   it, batch, yielded, last_epoch, lr, lr0, epoch, step, loss,
                   best_stsb, best_step, logs, model_pt, logs_csv,
                   best_metrics, config_json>>

EvaluateFails ==
    /\ pc = "sts_dev"
    /\ Raise("scorer")

\* lines 265-269: keep the best score, its step and its parameters
UpdateBest ==
    /\ pc = "compare"
    /\ IF Better(best_stsb, stsb_score)
       THEN /\ best_stsb' = stsb_score
            /\ best_step' = BestStep(step)
            /\ model_pt' = Some(state_dict)
       ELSE UNCHANGED <<best_stsb, best_step, model_pt>>
    /\ pc' = "log"
    /\ UNCHANGED <<args, train_dataset, exc, training, state_dict, emb1, emb2,
                   enc, it, batch, yielded, last_epoch, lr, lr0, epoch, step,
                   loss, stsb_score, logs, evals, logs_csv, best_metrics,
                   config_json>>

\* lines 272-285: append the log row, back to training mode
AppendLog ==
    /\ pc = "log"
    /\ logs' = Append(logs, [epoch |-> epoch, step |-> LogStep(step),
                             loss |-> Some(loss), stsb |-> stsb_score])
    /\ training' = train
    /\ pc' = "for_step"
    /\ UNCHANGED <<args, train_dataset, exc, state_dict, emb1, emb2, enc, it,
                   batch, yielded, last_epoch, lr, lr0, epoch, step, loss,
                   stsb_score, best_stsb, best_step, evals, model_pt, logs_csv,
                   best_metrics, config_json>>

\* line 288
SaveLogs ==
    /\ pc = "save_logs"
    /\ logs_csv' = Some(logs)
    /\ pc' = "save_best"
    /\ UNCHANGED <<args, train_dataset, exc, training, state_dict, emb1, emb2,
                   enc, it, batch, yielded, last_epoch, lr, lr0, epoch, step,
                   loss, stsb_score, best_stsb, best_step, logs, evals,
                   model_pt, best_metrics, config_json>>

\* lines 290-295
SaveBestMetrics ==
    /\ pc = "save_best"
    /\ best_metrics' = Some([step |-> best_step, stsb |-> best_stsb])
    /\ pc' = "save_config"
    /\ UNCHANGED <<args, train_dataset, exc, training, state_dict, emb1, emb2,
                   enc, it, batch, yielded, last_epoch, lr, lr0, epoch, step,
                   loss, stsb_score, best_stsb, best_step, logs, evals,
                   model_pt, logs_csv, config_json>>

\* lines 297-299
SaveConfig ==
    /\ pc = "save_config"
    /\ config_json' = Some(args)
    /\ pc' = "done"
    /\ UNCHANGED <<args, train_dataset, exc, training, state_dict, emb1, emb2,
                   enc, it, batch, yielded, last_epoch, lr, lr0, epoch, step,
                   loss, stsb_score, best_stsb, best_step, logs, evals,
                   model_pt, logs_csv, best_metrics>>

Next ==
    \/ Setup
    \/ InitialEvalMode
    \/ InitialEval
    \/ InitialEvalFails
    \/ NextEpoch
    \/ EpochsDone
    \/ FetchBatch
    \/ EpochEnd
    \/ Forward
    \/ ForwardFails
    \/ OptimizerStep
    \/ EvalMode
    \/ NoEval
    \/ Evaluate
    \/ EvaluateFails
    \/ UpdateBest
    \/ AppendLog
    \/ SaveLogs
    \/ SaveBestMetrics
    \/ SaveConfig

Spec == Init /\ [][Next]_vars

\* main() runs to its end or to an exception: a sequential program keeps running
FairSpec == Spec /\ WF_vars(Next)

\* ---------------------------------------------------------------- claims

\* quantities the properties are stated with (only read when batch_size > 0)
N == train_dataset
B == args.batch_size
StepsPerEpoch == N \div B
TotalSteps == args.epochs * StepsPerEpoch

\* program points at which no evaluation event is in progress
Boundary == {"for_epoch", "for_step", "forward", "backward", "interval",
             "save_logs", "save_best", "save_config", "done"}

RunStarted == pc # "main" /\ exc # "DataLoader"

MaxLogged == CHOOSE m \in {ScoreOf(logs[i]) : i \in 1..Len(logs)} :
                 \A i \in 1..Len(logs) : ScoreOf(logs[i]) <= m

FirstBest == CHOOSE i \in 1..Len(logs) :
                 /\ ScoreOf(logs[i]) = MaxLogged
                 /\ \A j \in 1..(i - 1) : ScoreOf(logs[j]) < MaxLogged

\* global 1-based index of the training step a log row belongs to
GlobalStep(row) == row.epoch * StepsPerEpoch + row.step

IsZero(rate) == rate[1] = 0
IsBase(rate) == rate[1] = rate[2]

\* C1: at the end of a completed run a checkpoint exists and it is the
\* parameter snapshot of the evaluation event whose step is the best step of
\* the best-metrics record (read on runs with an in-loop evaluation).  The
\* code violates it when no in-loop score exceeds the step-0 score: model.pt
\* is never written.
C1_CheckpointMatchesBest ==
    (pc = "done" /\ Len(logs) >= 2) =>
        /\ model_pt # None
        /\ \E i \in 1..Len(logs) :
            /\ logs[i].step = best_metrics[1].step
            /\ model_pt = Some(evals[i])

\* C2: after every evaluation event the running best score is the maximum of
\* the logged scores and the best step is the step of a log row with that
\* score; the best score never decreases; the persisted best-metrics step is
\* a logged step.
C2_Inv ==
    /\ (Len(logs) > 0 /\ pc \notin {"compare", "log"}) =>
        /\ best_stsb = MaxLogged
        /\ \E i \in 1..Len(logs) :
            ScoreOf(logs[i]) = best_stsb /\ logs[i].step = best_step
    /\ best_metrics # None =>
        \E i \in 1..Len(logs_csv[1]) :
            /\ logs_csv[1][i].step = best_metrics[1].step
            /\ ScoreOf(logs_csv[1][i]) = best_metrics[1].stsb
            /\ best_metrics[1].stsb = MaxLogged

C2_BestIsRunningMax == []C2_Inv /\ [][best_stsb' >= best_stsb]_vars

C2_Witness ==
    /\ pc = "done"
    /\ Len(logs) >= 3
    /\ best_step > 0
    /\ ScoreOf(logs[Len(logs)]) < best_stsb

\* C3: an evaluation whose score is equal to or lower than the best leaves
\* best score, best step and checkpoint unchanged; a strictly greater score
\* updates the three together; among equal maximal scores the first wins.
C3_Inv ==
    (Len(logs) > 0 /\ pc \in Boundary) =>
        /\ best_step = logs[FirstBest].step
        /\ model_pt = IF FirstBest = 1 THEN None ELSE Some(evals[FirstBest])

C3_Step ==
    /\ pc = "compare" =>
        IF stsb_score > best_stsb
        THEN /\ best_stsb' = stsb_score
             /\ best_step' = step + 1
             /\ model_pt' = Some(state_dict)
        ELSE UNCHANGED <<best_stsb, best_step, model_pt>>
    /\ pc \notin {"compare", "sts_dev_0"} =>
        UNCHANGED <<best_stsb, best_step, model_pt>>

C3_StrictImprovement == []C3_Inv /\ [][C3_Step]_vars

C3_Witness ==
    /\ pc = "log"
    /\ stsb_score = best_stsb
    /\ model_pt # None
    /\ model_pt # Some(state_dict)

\* C4: a batch size below 2 is rejected before the run proceeds: no
\* evaluation, no training step, no artifact write.  (Stated as claimed; the
\* code has no such validation and runs batch size 1.)
C4_SmallBatchRejected ==
    args.batch_size < 2 =>
        /\ Len(evals) = 0
        /\ state_dict = 0
        /\ model_pt = None
        /\ logs_csv = None /\ best_metrics = None /\ config_json = None

\* C5: one evaluation at step 0 before any update, then exactly at the steps
\* whose 1-based in-epoch number is a multiple of the interval or the last of
\* the epoch, after that step's update; one log row per event in event order,
\* the first with a null loss, the others with the loss of their step.
IsEvalStep(s) == s % args.eval_logging_interval = 0 \/ s = StepsPerEpoch

StepCompleted(g) ==
    \/ g < state_dict
    \/ g = state_dict /\ pc \in (Boundary \ {"interval"})

C5_EvaluationSchedule ==
    RunStarted =>
        /\ state_dict > 0 => Len(logs) >= 1
        /\ Len(evals) >= 1 => evals[1] = 0
        /\ Len(logs) >= 1 =>
            /\ logs[1].epoch = 0 /\ logs[1].step = 0 /\ logs[1].loss = None
        /\ \A i \in 2..Len(logs) :
            /\ logs[i].step \in 1..StepsPerEpoch
            /\ logs[i].epoch \in 0..(args.epochs - 1)
            /\ IsEvalStep(logs[i].step)
            /\ logs[i].loss = Some(GlobalStep(logs[i]))
            /\ evals[i] = GlobalStep(logs[i])
            /\ i > 2 => GlobalStep(logs[i - 1]) < GlobalStep(logs[i])
        /\ \A g \in 1..state_dict :
            (StepCompleted(g) /\ IsEvalStep(((g - 1) % StepsPerEpoch) + 1)) =>
                \E i \in 2..Len(logs) : GlobalStep(logs[i]) = g
        /\ pc \in Boundary => Len(evals) = Len(logs)
        /\ logs_csv # None => logs_csv = Some(logs)

C5_Witness ==
    /\ pc = "done"
    /\ args.epochs >= 2
    /\ Len(logs) >= 3
    /\ state_dict > Len(logs) - 1

\* C6 (as claimed): each epoch yields floor(N/B) batches of length B with no
\* sample in two batches, and their union is a PROPER subset of the samples,
\* of size B*floor(N/B).
Union(batches) == {batches[i][k] : i \in 1..Len(batches), k \in 1..B}

EndOfEpoch == pc = "for_epoch" /\ epoch >= 0

BatchesWellFormed ==
    /\ Len(yielded) <= StepsPerEpoch
    /\ \A i \in 1..Len(yielded) :
        /\ Len(yielded[i]) = B
        /\ \A k \in 1..B : yielded[i][k] \in 1..N
        /\ \A j \in 1..Len(yielded), k, l \in 1..B :
            yielded[i][k] = yielded[j][l] => (i = j /\ k = l)

C6_ProperSubset ==
    (RunStarted /\ EndOfEpoch) =>
        /\ BatchesWellFormed
        /\ Len(yielded) = StepsPerEpoch
        /\ Cardinality(Union(yielded)) = B * StepsPerEpoch
        /\ Union(yielded) \subseteq 1..N
        /\ Union(yielded) # 1..N

\* C6 (amended): as above, but the union is a subset of the samples that is
\* proper exactly when B does not divide N.
C6_BatchSampler ==
    RunStarted =>
        /\ BatchesWellFormed
        /\ EndOfEpoch =>
            /\ Len(yielded) = StepsPerEpoch
            /\ Cardinality(Union(yielded)) = B * StepsPerEpoch
            /\ Union(yielded) \subseteq 1..N
            /\ (Union(yielded) # 1..N) <=> (N % B # 0)

C6_Witness ==
    /\ EndOfEpoch
    /\ N % B # 0
    /\ Len(yielded) >= 1
    /\ epoch >= 1

\* C7 (as claimed): the rate at step 0 is 0 when warmup > 0 and the base rate
\* when warmup = 0, and it is 0 once the schedule was advanced T times, for
\* every warmup, epochs and steps-per-epoch.
C7_ScheduleBoundaries ==
    lr0 # None =>
        /\ args.num_warmup_steps > 0 => IsZero(lr0)
        /\ args.num_warmup_steps = 0 => IsBase(lr0)
        /\ last_epoch = TotalSteps => IsZero(lr)

\* C7 (amended): the rate at step 0 is 0 when warmup > 0 or T = 0 and the
\* base rate when warmup = 0 and T >= 1; after T advances it is 0 when
\* warmup <= T and base * T / warmup when warmup > T.
C7_ScheduleBoundariesAmended ==
    lr0 # None =>
        /\ (args.num_warmup_steps > 0 \/ TotalSteps = 0) => IsZero(lr0)
        /\ (args.num_warmup_steps = 0 /\ TotalSteps >= 1) => IsBase(lr0)
        /\ (last_epoch = TotalSteps /\ args.num_warmup_steps <= TotalSteps) =>
            IsZero(lr)
        /\ (last_epoch = TotalSteps /\ args.num_warmup_steps > TotalSteps) =>
            lr = <<TotalSteps, args.num_warmup_steps>>
        /\ last_epoch <= TotalSteps
        /\ last_epoch = state_dict

C7_Witness ==
    /\ pc = "done"
    /\ args.num_warmup_steps > 0
    /\ args.num_warmup_steps < TotalSteps
    /\ last_epoch = TotalSteps

\* C8: without an exception the run ends after exactly epochs * floor(N/B)
\* gradient updates whatever the scores, and only then writes the log table,
\* the best-metrics record and the configuration record.
C8_Inv ==
    /\ pc = "done" =>
        /\ exc = "none"
        /\ state_dict = TotalSteps
        /\ logs_csv = Some(logs)
        /\ best_metrics = Some([step |-> best_step, stsb |-> best_stsb])
        /\ config_json = Some(args)
    /\ (logs_csv # None \/ best_metrics # None \/ config_json # None) =>
        /\ state_dict = TotalSteps
        /\ pc \in {"save_best", "save_config", "done"}
    /\ pc \in Boundary => state_dict <= TotalSteps

C8_Terminates == []C8_Inv /\ <>(pc \in {"done", "aborted"})

C8_Witness ==
    /\ pc = "done"
    /\ args.epochs >= 2
    /\ StepsPerEpoch >= 2
    /\ best_step = 1
    /\ Len(logs) >= 3

\* C9: an exception in a training step or in a scorer call aborts the run:
\* nothing is retried or skipped and nothing happens afterwards (no training
\* step, evaluation, best-score update, checkpoint or artifact write).
C9_Inv ==
    exc # "none" =>
        /\ pc = "aborted"
        /\ logs_csv = None /\ best_metrics = None /\ config_json = None

C9_Step ==
    /\ exc # "none" => UNCHANGED vars
    /\ (exc = "none" /\ exc' # "none") =>
        UNCHANGED <<state_dict, last_epoch, lr, logs, evals, best_stsb,
                    best_step, model_pt, epoch, step, batch, it>>

C9_ExceptionIsFatal == []C9_Inv /\ [][C9_Step]_vars

C9_Witness ==
    /\ pc = "aborted"
    /\ exc = "forward"
    /\ state_dict >= 1
    /\ model_pt # None

\* C10: the scorer runs only with the wrapper in evaluation mode (no dropout,
\* no projection head) and both forward passes of every training step run in
\* training mode, also right after an evaluation event.
C10_Modes ==
    /\ pc \in {"sts_dev_0", "sts_dev"} => ~training
    /\ enc # None => (~enc[1].dropout /\ ~enc[1].mlp)
    /\ pc = "forward" => training
    /\ emb1 # None => (emb1[1].dropout /\ emb1[1].mlp)
    /\ emb2 # None => (emb2[1].dropout /\ emb2[1].mlp)

C10_Witness ==
    /\ pc = "backward"
    /\ step >= 1
    /\ epoch >= 1
    /\ Len(logs) >= 3
    /\ logs[Len(logs)].step = step
    /\ logs[Len(logs)].epoch = epoch

====
